---- MODULE Spec2Model ----
(***************************************************************************)
(* Model of oci_a1_autoclaim.py: environment resolution (region / subnet / *)
(* image), candidate enumeration and the retry loop of main().             *)
(*                                                                         *)
(* Strings whose content the program inspects (provider error messages,    *)
(* the RuntimeError texts try_launch raises, image display names) are      *)
(* sequences of one-character strings, so that lower-casing, substring     *)
(* search, equality and startswith are computed, not assumed.              *)
(* Identifiers that are only compared or sorted (OCIDs, availability       *)
(* domain names, display names of subnets) are naturals ordered like the   *)
(* strings they stand for; 0 stands for None / the empty string.           *)
(***************************************************************************)
EXTENDS Naturals, Integers, Sequences, FiniteSets, TLC

VARIABLES
    env,            \* the configuration read from the environment (module level, lines 22-44)
    fs,             \* state of the SSH public key file: "ok", "missing", "unreadable"
    cloud,          \* what the provider answers to the resolution calls
    pc,             \* position of main()
    exitCode,       \* sys.exit code, -1 while running or returned normally
    failure,        \* why the run ended before the loop ("" if it did not)
    remoteCalled,   \* TRUE once any call to the provider has been issued
    region,         \* region returned by validate_and_maybe_switch_region
    subnet_id,      \* subnet id returned by it (0 = None)
    image_override, \* image override returned by it (0 = None)
    clientRegion,   \* region the compute / network / iam clients of main() are bound to
    ad_order,       \* line 344
    image_id,       \* line 346
    attempt,        \* line 352 / 357
    adIdx,          \* position of "for ad in ad_order"
    ocpuIdx,        \* position of "for ocpu in OCPU_CANDIDATES"
    passes,         \* completed iterations of "while True"
    lastCand,       \* arguments (ad, ocpu, mem) of the latest try_launch call
    lastRegion,     \* region of the clients handed to the latest try_launch call
    passTrace,      \* candidates handed to try_launch in the current pass
    lastBeh,        \* what the provider did during the latest try_launch call
    branch,         \* branch of main() lines 359-379 the latest attempt took
    onlyCapacity,   \* TRUE while every attempt so far took the "capacity" branch
    accepted,       \* launch_instance submissions accepted by the provider
    successRecords, \* completed writes of SUCCESS.txt
    sleeps,         \* completed time.sleep(SLEEP_SECONDS) calls
    slept,          \* seconds slept by them
    returned        \* TRUE once a try_launch call has returned an instance and its address

vars == << env, fs, cloud, pc, exitCode, failure, remoteCalled, region, subnet_id,
           image_override, clientRegion, ad_order, image_id, attempt, adIdx, ocpuIdx,
           passes, lastCand, lastRegion, passTrace, lastBeh, branch, onlyCapacity,
           accepted, successRecords, sleeps, slept, returned >>

----------------------------------------------------------------------------
(* Bounds of the model *)

MaxAttempts == 5
MaxPasses == 5
MaxImages == 3

----------------------------------------------------------------------------
(* Strings *)

KW_notauthorized == <<"n","o","t","a","u","t","h","o","r","i","z","e","d">>
KW_not_found == <<"n","o","t"," ","f","o","u","n","d">>
KW_capacity == <<"c","a","p","a","c","i","t","y">>
KW_outofhostcapacity == <<"o","u","t","o","f","h","o","s","t","c","a","p","a","c","i","t","y">>
KW_out_of_capacity == <<"o","u","t"," ","o","f"," ","c","a","p","a","c","i","t","y">>
KW_insufficient == <<"i","n","s","u","f","f","i","c","i","e","n","t">>
STR_CAPACITY == <<"C","A","P","A","C","I","T","Y">>
STR_AUTH_OR_NOTFOUND == <<"A","U","T","H","_","O","R","_","N","O","T","F","O","U","N","D">>
STR_AUTH_TAIL == <<":"," ","c","h","e","c","k">>
STR_API == <<"A","P","I",":">>
STR_EX == <<"E","X",":">>
STR_NO_VNIC == <<"R","u","n","t","i","m","e","E","r","r","o","r",":"," ","n","o"," ","V","N","I","C">>
STR_MAXWAIT == <<"M","a","x","i","m","u","m","W","a","i","t","T","i","m","e","E","x","c","e","e","d","e","d",":"," ">>
STR_REQUEST == <<"R","e","q","u","e","s","t","E","x","c","e","p","t","i","o","n",":"," ">>

MSG_Empty == << >>
MSG_OutOfHost == <<"O","u","t"," ","o","f"," ","h","o","s","t"," ","c","a","p","a","c","i","t","y",".">>
MSG_AuthFailed == <<"N","o","t","A","u","t","h","o","r","i","z","e","d","O","r","N","o","t","F","o","u","n","d">>
MSG_NotFoundCap == <<"N","o","t"," ","F","o","u","n","d",":"," ","c","a","p","a","c","i","t","y">>
MSG_TooMany == <<"T","o","o"," ","m","a","n","y"," ","r","e","q","u","e","s","t","s">>
MSG_Insufficient == <<"I","N","S","U","F","F","I","C","I","E","N","T"," ","q","u","o","t","a">>
MSG_OutOfCapacity == <<"O","u","t"," ","O","f"," ","C","a","p","a","c","i","t","y">>
MSG_CAPACITY == <<"C","A","P","A","C","I","T","Y">>
MSG_AUTH == <<"A","U","T","H","_","O","R","_","N","O","T","F","O","U","N","D">>

(* Messages a ServiceError of the provider may carry (e.message; None is    *)
(* turned into the empty string by "e.message or ''", line 305).            *)
Messages ==
    { MSG_Empty, MSG_OutOfHost, MSG_AuthFailed, MSG_NotFoundCap, MSG_TooMany,
      MSG_Insufficient, MSG_OutOfCapacity, MSG_CAPACITY, MSG_AUTH }

(* HTTP statuses of a ServiceError *)
Statuses == {404, 500}

UpperChars == <<"A","B","C","D","E","F","G","H","I","J","K","L","M","N","O","P","Q","R","S","T","U","V","W","X","Y","Z">>
LowerChars == <<"a","b","c","d","e","f","g","h","i","j","k","l","m","n","o","p","q","r","s","t","u","v","w","x","y","z">>

(* str.lower() on one character *)
LowerChar(c) ==
    IF \E i \in 1..Len(UpperChars) : UpperChars[i] = c
    THEN LowerChars[CHOOSE i \in 1..Len(UpperChars) : UpperChars[i] = c]
    ELSE c

(* str.lower() *)
Lower(s) == [i \in 1..Len(s) |-> LowerChar(s[i])]

(* "k in s" on strings *)
Contains(s, k) ==
    \E i \in 0..(Len(s) - Len(k)) : \A j \in 1..Len(k) : s[i + j] = k[j]

(* s.startswith(p) *)
StartsWith(s, p) ==
    /\ Len(p) <= Len(s)
    /\ \A j \in 1..Len(p) : s[j] = p[j]

(* str(status) for the statuses of the model *)
StatusStr(status) ==
    IF status = 404 THEN <<"4","0","4">> ELSE <<"5","0","0">>

----------------------------------------------------------------------------
(* try_launch *)

STR_CODE == <<"c","o","d","e">>

(* The keyword test of line 308 *)
IsCapacityMessage(msg) ==
    \/ Contains(msg, KW_capacity)
    \/ Contains(msg, KW_outofhostcapacity)
    \/ Contains(msg, KW_out_of_capacity)
    \/ Contains(msg, KW_insufficient)

(* The test of line 306 *)
IsAuthOrNotFound(status, msg) ==
    \/ status = 404
    \/ Contains(msg, KW_notauthorized)
    \/ Contains(msg, KW_not_found)

(* A plausible bug for C6: the capacity keywords are tested first *)
ServiceErrorText_CapacityFirst(status, message) ==
    LET msg == Lower(message)
    IN  IF IsCapacityMessage(msg)
        THEN STR_CAPACITY
        ELSE IF IsAuthOrNotFound(status, msg)
        THEN STR_AUTH_OR_NOTFOUND \o STR_AUTH_TAIL
        ELSE STR_API \o StatusStr(status) \o <<" ">> \o STR_CODE \o <<" ">> \o message

(* Lines 304-310: the text of the RuntimeError raised for a ServiceError    *)
(* with the given status and message.                                      *)
ServiceErrorText(status, message) ==
    LET msg == Lower(message)
    IN  IF IsAuthOrNotFound(status, msg)
        THEN STR_AUTH_OR_NOTFOUND \o STR_AUTH_TAIL
        ELSE IF IsCapacityMessage(msg)
        THEN STR_CAPACITY
        ELSE STR_API \o StatusStr(status) \o <<" ">> \o STR_CODE \o <<" ">> \o message

(* ServiceErrorText over the statuses and messages of the model *)
ServiceErrorTexts ==
    [s \in Statuses, m \in Messages |-> ServiceErrorText(s, m)]

(* A plausible bug for C7: every other exception reported as CAPACITY *)
OtherErrorText_AsCapacity(what) == STR_CAPACITY

(* Lines 311-312: the text of the RuntimeError raised for any other         *)
(* exception, whose type name and text are given as one string.            *)
OtherErrorText(what) == STR_EX \o what

NoError == [kind |-> "none", status |-> 0, message |-> MSG_Empty]

ServiceErrors ==
    { [kind |-> "ServiceError", status |-> s, message |-> m] : s \in Statuses, m \in Messages }

(* The ServiceErrors of the calls that follow an accepted launch_instance:  *)
(* one per branch of lines 304-310.                                         *)
LaterServiceErrors ==
    { [kind |-> "ServiceError", status |-> 404, message |-> MSG_Empty],
      [kind |-> "ServiceError", status |-> 500, message |-> MSG_OutOfHost],
      [kind |-> "ServiceError", status |-> 500, message |-> MSG_TooMany] }

(* What the provider and the file system do during one try_launch call:     *)
(* the first step that does not succeed, and how it fails.                  *)
(*   stage "launch"  compute.launch_instance            (line 283)          *)
(*   stage "wait"    compute.get_instance / wait_until  (lines 286-293)     *)
(*   stage "attach"  compute.list_vnic_attachments      (lines 295-300)     *)
(*   stage "vnic"    network.get_vnic                   (line 301)          *)
(*   stage "done"    every call succeeded; write tells whether the write of *)
(*                   SUCCESS.txt (lines 362-363) succeeds                   *)
Behaviours ==
    { [stage |-> "launch", err |-> e, write |-> TRUE] : e \in ServiceErrors }
    \cup { [stage |-> st, err |-> e, write |-> TRUE] :
             st \in {"wait", "attach", "vnic"}, e \in LaterServiceErrors }
    \cup { [stage |-> "launch", err |-> [kind |-> "RequestException", status |-> 0, message |-> MSG_Empty], write |-> TRUE],
           [stage |-> "wait",   err |-> [kind |-> "MaximumWaitTimeExceeded", status |-> 0, message |-> MSG_Empty], write |-> TRUE],
           [stage |-> "attach", err |-> [kind |-> "NoVnicAttachment", status |-> 0, message |-> MSG_Empty], write |-> TRUE] }
    \cup { [stage |-> "done", err |-> NoError, write |-> w] : w \in BOOLEAN }

NoBehaviour == [stage |-> "none", err |-> NoError, write |-> TRUE]

(* A plausible bug for C8: the test of line 299 is missing and the id is    *)
(* returned without an address                                              *)
try_launch_IgnoresMissingVnic(keyReadable, beh) ==
    IF ~keyReadable
    THEN [kind |-> "raise", exc |-> "OSError", text |-> MSG_Empty, accepted |-> FALSE]
    ELSE IF beh.stage = "done" \/ beh.err.kind = "NoVnicAttachment"
    THEN [kind |-> "return", exc |-> "", text |-> MSG_Empty, accepted |-> TRUE]
    ELSE IF beh.err.kind = "ServiceError"
    THEN [kind |-> "raise", exc |-> "RuntimeError",
          text |-> ServiceErrorTexts[beh.err.status, beh.err.message],
          accepted |-> beh.stage # "launch"]
    ELSE [kind |-> "raise", exc |-> "RuntimeError", text |-> OtherErrorText(STR_MAXWAIT),
          accepted |-> beh.stage # "launch"]

(* Lines 243-312. keyReadable: whether open(SSH_PUBLIC_KEY_PATH) and the    *)
(* read succeed (lines 251-252, outside the try statement).                 *)
(* Result: what try_launch does (returns, or raises which exception with    *)
(* which text) and whether launch_instance had accepted the request.        *)
try_launch(keyReadable, beh) ==
    IF ~keyReadable
    THEN [kind |-> "raise", exc |-> "OSError", text |-> MSG_Empty, accepted |-> FALSE]
    ELSE LET acc == beh.stage # "launch"
         IN  IF beh.stage = "done"
             THEN [kind |-> "return", exc |-> "", text |-> MSG_Empty, accepted |-> acc]
             ELSE IF beh.err.kind = "ServiceError"
             THEN [kind |-> "raise", exc |-> "RuntimeError",
                   text |-> ServiceErrorTexts[beh.err.status, beh.err.message],
                   accepted |-> acc]
             ELSE [kind |-> "raise", exc |-> "RuntimeError",
                   text |-> OtherErrorText(
                              IF beh.err.kind = "MaximumWaitTimeExceeded" THEN STR_MAXWAIT
                              ELSE IF beh.err.kind = "NoVnicAttachment" THEN STR_NO_VNIC
                              ELSE STR_REQUEST),
                   accepted |-> acc]

(* Lines 359-379 of main(): the branch taken for the result of try_launch.  *)
(*   "success"    lines 361-364, SUCCESS.txt written, return                *)
(*   "capacity"   lines 367-369                                             *)
(*   "auth"       lines 370-372, return                                     *)
(*   "other"      lines 373-375                                             *)
(*   "exception"  lines 376-379 (any exception that is no RuntimeError,     *)
(*                also one raised by lines 361-363 after try_launch         *)
(*                returned)                                                 *)
MainBranch(res, writeOk) ==
    IF res.kind = "return"
    THEN IF writeOk THEN "success" ELSE "exception"
    ELSE IF res.exc = "RuntimeError"
    THEN IF res.text = STR_CAPACITY THEN "capacity"
         ELSE IF StartsWith(res.text, STR_AUTH_OR_NOTFOUND) THEN "auth"
         ELSE "other"
    ELSE "exception"

(* A plausible bug for C1: the return of line 364 is missing *)
AfterBranch_NoReturnOnSuccess(br) ==
    IF br = "auth" THEN "Aborted" ELSE "sleep"

(* A plausible bug for C2: CAPACITY treated like the other return *)
AfterBranch_CapacityReturns(br) ==
    IF br = "success" THEN "Succeeded"
    ELSE IF br \in {"auth", "capacity"} THEN "Aborted"
    ELSE "sleep"

(* A plausible bug for C3: AUTH_OR_NOTFOUND sleeps and continues *)
AfterBranch_AuthContinues(br) ==
    IF br = "success" THEN "Succeeded" ELSE "sleep"

(* Where main() goes after the branch: "Succeeded" is the return of line   *)
(* 364, "Aborted" the return of line 372, "sleep" the time.sleep of lines   *)
(* 369, 375 and 379, after which the for statements continue.               *)
AfterBranch(br) ==
    IF br = "success" THEN "Succeeded"
    ELSE IF br = "auth" THEN "Aborted"
    ELSE "sleep"

----------------------------------------------------------------------------
(* Resolution: validate_and_maybe_switch_region and its helpers *)

Regions == {"r0", "r1", "r2"}

(* base_cfg["region"], the region of the configuration file (line 328) *)
BaseRegion == "r0"

(* Lines 108-112: the subnets list_subnets returns, AVAILABLE ones only *)
list_subnets_in_compartment(c) ==
    SelectSeq(c.subnets, LAMBDA s : s.state = "AVAILABLE")

(* Lines 119-140. The clients are bound to region rgn.                      *)
(* Result: the subnet id found (0 = None), or raises.                       *)
resolve_subnet_in_region(c, rgn, wanted_subnet_id) ==
    IF wanted_subnet_id # 0 /\ c.subnetAt[rgn] = "ok"
    THEN [raises |-> FALSE, id |-> wanted_subnet_id]
    ELSE IF wanted_subnet_id # 0 /\ c.subnetAt[rgn] = "err"
    THEN [raises |-> TRUE, id |-> 0]
    ELSE [raises |-> FALSE, id |-> 0]

(* Lines 182-198: the loop over the subscribed regions, from position i.    *)
RECURSIVE SearchRegions(_, _, _)
SearchRegions(c, cur, i) ==
    IF i > Len(c.subs)
    THEN [kind |-> "none", region |-> cur]
    ELSE LET rname == c.subs[i]
         IN  IF rname = cur
             THEN SearchRegions(c, cur, i + 1)
             ELSE IF c.subnetAt[rname] = "ok"
             THEN [kind |-> "found", region |-> rname]
             ELSE IF c.subnetAt[rname] = "404"
             THEN SearchRegions(c, cur, i + 1)
             ELSE [kind |-> "raise", region |-> cur]

(* The sort key of lines 213-214: display_name or id *)
SubnetKey(s) == IF s.display_name # 0 THEN s.display_name ELSE s.id

(* sorted(subs, key=SubnetKey)[0] for a non-empty list: sorted is stable *)
FirstSorted(subs) ==
    LET least == CHOOSE k \in {SubnetKey(subs[i]) : i \in 1..Len(subs)} :
                    \A j \in 1..Len(subs) : k <= SubnetKey(subs[j])
        first == CHOOSE i \in 1..Len(subs) :
                    /\ SubnetKey(subs[i]) = least
                    /\ \A j \in 1..(i - 1) : SubnetKey(subs[j]) # least
    IN  subs[first]

(* Lines 212-216 for a non-empty subs_now *)
ChooseSubnet(subs_now) ==
    LET cand == SelectSeq(subs_now, LAMBDA s : ~s.prohibit_public_ip_on_vnic)
    IN  IF cand # << >> THEN FirstSorted(cand) ELSE FirstSorted(subs_now)

Resolved(rgn, sid, img) ==
    [ok |-> TRUE, failure |-> "", region |-> rgn, subnet_id |-> sid, image_override |-> img]

Failed(why) ==
    [ok |-> FALSE, failure |-> why, region |-> BaseRegion, subnet_id |-> 0, image_override |-> 0]

(* A plausible bug for C14: an image override the provider does not have is *)
(* handed to the loop                                                       *)
ValidateImage_KeepsMissing(e, c, rgn, sid) ==
    IF e.IMAGE_OCID_OVERRIDE # 0
    THEN IF c.imageAt[BaseRegion] \in {"ok", "404"}
         THEN Resolved(rgn, sid, e.IMAGE_OCID_OVERRIDE)
         ELSE Failed("ServiceError")
    ELSE Resolved(rgn, sid, 0)

(* Lines 218-228, then 241. The image is looked up with the compute client  *)
(* made at line 150, which is bound to the region of base_cfg.              *)
ValidateImage(e, c, rgn, sid) ==
    IF e.IMAGE_OCID_OVERRIDE # 0
    THEN IF c.imageAt[BaseRegion] = "ok"
         THEN Resolved(rgn, sid, e.IMAGE_OCID_OVERRIDE)
         ELSE IF c.imageAt[BaseRegion] = "404"
         THEN Failed("image override not found")
         ELSE Failed("ServiceError")
    ELSE Resolved(rgn, sid, 0)

(* Lines 205-216, then the rest. The subnets are listed with the network    *)
(* client made at line 150.                                                 *)
AutoFindSubnet(e, c, rgn, sid) ==
    IF sid = 0 /\ e.AUTO_FIND_SUBNET
    THEN LET subs_now == list_subnets_in_compartment(c)
         IN  IF subs_now = << >>
             THEN Failed("no subnets visible")
             ELSE ValidateImage(e, c, rgn, ChooseSubnet(subs_now).id)
    ELSE ValidateImage(e, c, rgn, sid)

(* Lines 179-203, then the rest *)
SwitchRegion(e, c, sid) ==
    IF sid = 0 /\ e.SUBNET_OCID_ENV # 0 /\ e.AUTO_SWITCH_REGION
    THEN LET found == SearchRegions(c, BaseRegion, 1)
         IN  IF found.kind = "raise"
             THEN Failed("ServiceError")
             ELSE IF found.kind = "none"
             THEN Failed("subnet not found in any subscribed region")
             ELSE AutoFindSubnet(e, c, found.region, e.SUBNET_OCID_ENV)
    ELSE AutoFindSubnet(e, c, BaseRegion, sid)

(* Lines 143-241 *)
validate_and_maybe_switch_region(e, c) ==
    IF c.user # "ok"
    THEN Failed("cannot read user")
    ELSE IF c.compartment = "404"
    THEN Failed("compartment not found")
    ELSE IF c.compartment # "ok"
    THEN Failed("ServiceError")
    ELSE LET r == resolve_subnet_in_region(c, BaseRegion, e.SUBNET_OCID_ENV)
         IN  IF r.raises THEN Failed("ServiceError") ELSE SwitchRegion(e, c, r.id)

----------------------------------------------------------------------------
(* Preparation of the loop: main() lines 339-352 *)

(* sorted(S) for a finite set of naturals *)
RECURSIVE SortedSeq(_)
SortedSeq(S) ==
    IF S = {} THEN << >>
    ELSE LET m == CHOOSE x \in S : \A y \in S : x <= y
         IN  <<m>> \o SortedSeq(S \ {m})

(* Lines 82-87 *)
list_availability_domains(e, c) ==
    IF c.ads.ok THEN SortedSeq(c.ads.names) ELSE e.ADS

(* Line 344 *)
AdOrder(ADS, real_ads) ==
    LET configured == SelectSeq(ADS, LAMBDA ad : \E i \in 1..Len(real_ads) : ad = real_ads[i])
    IN  IF configured # << >> THEN configured
        ELSE IF real_ads # << >> THEN real_ads
        ELSE ADS

IMG_2204_AARCH64 == <<"U","-","2","2",".","0","4","-","A","A","R","C","H","6","4">>
IMG_2204_arm == <<"u","-","2","2",".","0","4","-","a","r","m">>
IMG_2404_arm == <<"u","-","2","4",".","0","4","-","a","r","m">>
IMG_2004_aarch64 == <<"u","-","2","0",".","0","4","-","a","a","r","c","h","6","4">>
IMG_2204_amd64 == <<"u","-","2","2",".","0","4","-","a","m","d","6","4">>
V2204 == <<"2","2",".","0","4">>
V2404 == <<"2","4",".","0","4">>
ARCH_aarch64 == <<"a","a","r","c","h","6","4">>
ARCH_arm == <<"a","r","m">>

(* Lines 100-101: the test of one image against a version *)
ImageMatches(img, ver) ==
    LET name == Lower(img.display_name)
    IN  Contains(name, ver) /\ (Contains(name, ARCH_aarch64) \/ Contains(name, ARCH_arm))

(* Lines 98-103: pick(ver), 0 = None *)
pick(imgs, ver) ==
    IF \E i \in 1..Len(imgs) : ImageMatches(imgs[i], ver)
    THEN imgs[CHOOSE i \in 1..Len(imgs) :
                /\ ImageMatches(imgs[i], ver)
                /\ \A j \in 1..(i - 1) : ~ImageMatches(imgs[j], ver)].id
    ELSE 0

(* A plausible bug for C13: the newest image of either version is taken *)
pick_latest_ubuntu_arm_image_NewestFirst(imgs) ==
    IF \E i \in 1..Len(imgs) : ImageMatches(imgs[i], V2204) \/ ImageMatches(imgs[i], V2404)
    THEN imgs[CHOOSE i \in 1..Len(imgs) :
                /\ ImageMatches(imgs[i], V2204) \/ ImageMatches(imgs[i], V2404)
                /\ \A j \in 1..(i - 1) :
                      ~(ImageMatches(imgs[j], V2204) \/ ImageMatches(imgs[j], V2404))].id
    ELSE 0

(* Lines 89-105; imgs is the listing, creation time descending *)
pick_latest_ubuntu_arm_image(imgs) ==
    IF pick(imgs, V2204) # 0 THEN pick(imgs, V2204) ELSE pick(imgs, V2404)

(* A plausible bug for C10: the clients are not made again after a switch *)
RebuildClients_KeepsOld(rgn, cur) == cur

(* Lines 339-341: the region the clients of main() are bound to after       *)
(* resolution returned rgn, cur being the region they were bound to.        *)
RebuildClients(rgn, cur) == IF rgn # BaseRegion THEN rgn ELSE cur

----------------------------------------------------------------------------
(* The loop of main(), lines 353-380 *)

(* A plausible bug for C15: a longer sleep after an error than after        *)
(* CAPACITY                                                                 *)
SleepInterval_LongerAfterError(e, br) ==
    IF br \in {"other", "exception"} THEN 2 * e.SLEEP_SECONDS ELSE e.SLEEP_SECONDS

(* Lines 369, 375, 379, 380: the argument of time.sleep after the branch br *)
(* of main(), "" for the sleep at the end of a pass                         *)
SleepInterval(e, br) == e.SLEEP_SECONDS

(* Lines 354-356: the candidate of position (i, j) *)
CandidateAt(ads, ocpus, ratio, i, j) ==
    [ad |-> ads[i], ocpu |-> ocpus[j], mem |-> ocpus[j] * ratio]

NoCandidate == [ad |-> 0, ocpu |-> 0, mem |-> 0]

(* Whether position (i, j) of the two for statements is a candidate; if     *)
(* not, the pass is over and line 380 is next.                              *)
AtCandidate(ads, ocpus, i, j) == i <= Len(ads) /\ j <= Len(ocpus)

(* A plausible bug for C5: a pass that restarts behind the first candidate  *)
FirstPos_SkipsFirst(ads, ocpus) ==
    IF ads = << >> \/ ocpus = << >>
    THEN [i |-> Len(ads) + 1, j |-> 1]
    ELSE IF Len(ocpus) >= 2 THEN [i |-> 1, j |-> 2] ELSE [i |-> 1, j |-> 1]

(* The position the for statements reach when a pass starts *)
FirstPos(ads, ocpus) ==
    IF ads = << >> \/ ocpus = << >>
    THEN [i |-> Len(ads) + 1, j |-> 1]
    ELSE [i |-> 1, j |-> 1]

(* A plausible bug for C19: the inner for statement is left after an error, *)
(* so that only the first OCPU count of each AD is tried                    *)
NextPos_LeavesInnerLoop(ads, ocpus, i, j) == [i |-> i + 1, j |-> 1]

(* A plausible bug for C4: the two for statements nested the other way *)
NextPos_OcpuMajor(ads, ocpus, i, j) ==
    IF i < Len(ads) THEN [i |-> i + 1, j |-> j] ELSE [i |-> 1, j |-> j + 1]

(* The position the for statements reach after the body ran at (i, j) *)
NextPos(ads, ocpus, i, j) ==
    IF j < Len(ocpus) THEN [i |-> i, j |-> j + 1] ELSE [i |-> i + 1, j |-> 1]

----------------------------------------------------------------------------
(* Configurations and provider answers the runs of the model start from *)

SubPrivate == [id |-> 11, display_name |-> 2, prohibit_public_ip_on_vnic |-> TRUE, state |-> "AVAILABLE"]
SubPublic == [id |-> 12, display_name |-> 3, prohibit_public_ip_on_vnic |-> FALSE, state |-> "AVAILABLE"]
SubNoName == [id |-> 1, display_name |-> 0, prohibit_public_ip_on_vnic |-> FALSE, state |-> "AVAILABLE"]
SubGone == [id |-> 14, display_name |-> 1, prohibit_public_ip_on_vnic |-> FALSE, state |-> "TERMINATED"]

SubnetLists ==
    { << >>, <<SubGone>>, <<SubPrivate>>, <<SubPrivate, SubPublic, SubNoName>> }

(* Answers of get_subnet(SUBNET_OCID_ENV) by region: an OCID lives in at    *)
(* most one region.                                                         *)
SubnetAnswers ==
    { [r \in Regions |-> IF r = home THEN "ok" ELSE "404"] : home \in Regions \cup {"nowhere"} }
    \cup { [r \in Regions |-> IF r = "r2" THEN "ok" ELSE IF r = "r1" THEN "err" ELSE "404"],
           [r \in Regions |-> IF r = "r0" THEN "err" ELSE "404"] }

ImageAnswers ==
    { [r \in Regions |-> IF r \in S THEN "ok" ELSE "404"] : S \in {{}, {"r0"}, {"r1"}, Regions} }
    \cup { [r \in Regions |-> "err"] }

SubscriptionLists == { <<"r0", "r1", "r2">>, <<"r2", "r0">> }

ImageLists ==
    { << >>,
      << [id |-> 21, display_name |-> IMG_2404_arm], [id |-> 22, display_name |-> IMG_2204_AARCH64],
         [id |-> 23, display_name |-> IMG_2004_aarch64] >>,
      << [id |-> 24, display_name |-> IMG_2204_amd64], [id |-> 21, display_name |-> IMG_2404_arm] >>,
      << [id |-> 23, display_name |-> IMG_2004_aarch64], [id |-> 24, display_name |-> IMG_2204_amd64] >> }

AdsLists == { << >>, <<2, 1>> }

AdsAnswers ==
    { [ok |-> FALSE, names |-> {}], [ok |-> TRUE, names |-> {}],
      [ok |-> TRUE, names |-> {1, 2}], [ok |-> TRUE, names |-> {2, 3}] }

OcpuLists == { << >>, <<2>>, <<4, 2>>, <<1, 4>> }

MemRatios == { 6, 8 }

DefaultEnv ==
    [ COMPARTMENT_OCID |-> 5, SUBNET_OCID_ENV |-> 7, IMAGE_OCID_OVERRIDE |-> 0,
      ADS |-> <<1, 2>>, OCPU_CANDIDATES |-> <<4, 2>>, MEM_PER_OCPU |-> 6,
      AUTO_FIND_SUBNET |-> TRUE, AUTO_SWITCH_REGION |-> TRUE, SLEEP_SECONDS |-> 120 ]

DefaultCloud ==
    [ user |-> "ok", compartment |-> "ok",
      subnetAt |-> [r \in Regions |-> IF r = "r0" THEN "ok" ELSE "404"],
      subs |-> <<"r0", "r1", "r2">>,
      subnets |-> <<SubPrivate>>,
      imageAt |-> [r \in Regions |-> "404"],
      ads |-> [ok |-> TRUE, names |-> {1, 2}],
      images |-> << [id |-> 22, display_name |-> IMG_2204_AARCH64] >> ]

Config(e, c, f) == [env |-> e, cloud |-> c, fs |-> f]

(* The start of main(): key file, COMPARTMENT_OCID, user and compartment *)
StartupConfigs ==
    { Config(DefaultEnv, DefaultCloud, f) : f \in {"ok", "missing", "unreadable"} }
    \cup { Config([DefaultEnv EXCEPT !.COMPARTMENT_OCID = 0], DefaultCloud, "ok") }
    \cup { Config(DefaultEnv, [DefaultCloud EXCEPT !.user = u, !.compartment = k], "ok") :
             u \in {"ok", "err"}, k \in {"ok", "404", "err"} }

(* The candidate sequence: ADS, OCPUS, MEM_PER_OCPU, the AD listing *)
CandidateConfigs ==
    { Config([DefaultEnv EXCEPT !.ADS = a, !.OCPU_CANDIDATES = o],
             [DefaultCloud EXCEPT !.ads = r], "ok") :
        a \in AdsLists, o \in OcpuLists, r \in AdsAnswers }
    \cup { Config([DefaultEnv EXCEPT !.MEM_PER_OCPU = m], DefaultCloud, "ok") : m \in MemRatios }

(* The subnet: configured id, switches, where the provider has it *)
SubnetConfigs ==
    { Config([DefaultEnv EXCEPT !.SUBNET_OCID_ENV = 7, !.AUTO_SWITCH_REGION = sw,
                                !.AUTO_FIND_SUBNET = af, !.OCPU_CANDIDATES = <<2>>],
             [DefaultCloud EXCEPT !.subnetAt = sa, !.subs = sl, !.subnets = sn], "ok") :
        sw \in BOOLEAN, af \in BOOLEAN, sa \in SubnetAnswers,
        sl \in SubscriptionLists, sn \in {<< >>, <<SubPrivate>>} }
    \cup
    { Config([DefaultEnv EXCEPT !.SUBNET_OCID_ENV = 0, !.AUTO_SWITCH_REGION = sw,
                                !.AUTO_FIND_SUBNET = af, !.OCPU_CANDIDATES = <<2>>],
             [DefaultCloud EXCEPT !.subnets = sn], "ok") :
        sw \in BOOLEAN, af \in BOOLEAN, sn \in SubnetLists }

(* The image: override, where the provider has it, the image listing *)
ImageConfigs ==
    { Config([DefaultEnv EXCEPT !.IMAGE_OCID_OVERRIDE = 9, !.OCPU_CANDIDATES = <<2>>],
             [DefaultCloud EXCEPT !.subnetAt = sa, !.imageAt = ia], "ok") :
        sa \in { [r \in Regions |-> IF r = home THEN "ok" ELSE "404"] : home \in {"r0", "r1"} },
        ia \in ImageAnswers }
    \cup
    { Config([DefaultEnv EXCEPT !.OCPU_CANDIDATES = <<2>>],
             [DefaultCloud EXCEPT !.images = il], "ok") : il \in ImageLists }

Configs == StartupConfigs \cup CandidateConfigs \cup SubnetConfigs \cup ImageConfigs

----------------------------------------------------------------------------
(* The run of main() *)

(* The state at the entry of main() under configuration k *)
InitWith(k) ==
    /\ env = k.env /\ cloud = k.cloud /\ fs = k.fs
    /\ pc = "start"
    /\ exitCode = -1
    /\ failure = ""
    /\ remoteCalled = FALSE
    /\ region = ""
    /\ subnet_id = 0
    /\ image_override = 0
    /\ clientRegion = ""
    /\ ad_order = << >>
    /\ image_id = 0
    /\ attempt = 0
    /\ adIdx = 0
    /\ ocpuIdx = 0
    /\ passes = 0
    /\ lastCand = NoCandidate
    /\ lastRegion = ""
    /\ passTrace = << >>
    /\ lastBeh = NoBehaviour
    /\ branch = ""
    /\ onlyCapacity = TRUE
    /\ accepted = 0
    /\ successRecords = 0
    /\ sleeps = 0
    /\ slept = 0
    /\ returned = FALSE

Init == \E k \in Configs : InitWith(k)

(* The runs that reach the loop with the candidate sequences of the model *)
FairInit == \E k \in CandidateConfigs : InitWith(k)

loopVars == << attempt, adIdx, ocpuIdx, passes, lastCand, lastRegion, passTrace, lastBeh,
               branch, onlyCapacity, accepted, successRecords, sleeps, slept, returned >>

(* Lines 316-329: the checks at the start of main(), the configuration      *)
(* file and the first clients.                                              *)
Start ==
    /\ pc = "start"
    /\ IF env.COMPARTMENT_OCID = 0
       THEN /\ pc' = "exit" /\ exitCode' = 1 /\ failure' = "missing COMPARTMENT_OCID"
            /\ UNCHANGED clientRegion
       ELSE IF fs = "missing"
       THEN /\ pc' = "exit" /\ exitCode' = 1 /\ failure' = "SSH public key not found"
            /\ UNCHANGED clientRegion
       ELSE /\ pc' = "resolve" /\ clientRegion' = BaseRegion
            /\ UNCHANGED << exitCode, failure >>
    /\ UNCHANGED << env, fs, cloud, remoteCalled, region, subnet_id, image_override,
                    ad_order, image_id >>
    /\ UNCHANGED loopVars

(* Lines 331-337 *)
Resolve ==
    /\ pc = "resolve"
    /\ LET r == validate_and_maybe_switch_region(env, cloud)
       IN  /\ remoteCalled' = TRUE
           /\ IF r.ok
              THEN /\ pc' = "prepare"
                   /\ region' = r.region
                   /\ subnet_id' = r.subnet_id
                   /\ image_override' = r.image_override
                   /\ UNCHANGED << exitCode, failure >>
              ELSE /\ pc' = "exit" /\ exitCode' = 1 /\ failure' = r.failure
                   /\ UNCHANGED << region, subnet_id, image_override >>
    /\ UNCHANGED << env, fs, cloud, clientRegion, ad_order, image_id >>
    /\ UNCHANGED loopVars

(* Lines 339-352 *)
Prepare ==
    /\ pc = "prepare"
    /\ LET clients == RebuildClients(region, clientRegion)
           real_ads == list_availability_domains(env, cloud)
           order == AdOrder(env.ADS, real_ads)
           img == IF image_override # 0 THEN image_override
                  ELSE pick_latest_ubuntu_arm_image(cloud.images)
           first == FirstPos(order, env.OCPU_CANDIDATES)
       IN  /\ clientRegion' = clients
           /\ ad_order' = order
           /\ image_id' = img
           /\ IF img = 0
              THEN /\ pc' = "exit" /\ exitCode' = 0 /\ failure' = "no image"
                   /\ UNCHANGED << adIdx, ocpuIdx >>
              ELSE /\ pc' = "loop" /\ adIdx' = first.i /\ ocpuIdx' = first.j
                   /\ UNCHANGED << exitCode, failure >>
    /\ UNCHANGED << env, fs, cloud, remoteCalled, region, subnet_id, image_override >>
    /\ UNCHANGED << attempt, passes, lastCand, lastRegion, passTrace, lastBeh, branch,
                    onlyCapacity, accepted, successRecords, sleeps, slept, returned >>

(* Lines 355-379 without the sleeps: one candidate, one try_launch call and *)
(* the branch main() takes for its result.                                  *)
Attempt ==
    /\ pc = "loop"
    /\ AtCandidate(ad_order, env.OCPU_CANDIDATES, adIdx, ocpuIdx)
    /\ attempt < MaxAttempts
    /\ \E beh \in (IF fs = "ok" THEN Behaviours ELSE {NoBehaviour}) :
         LET cand == CandidateAt(ad_order, env.OCPU_CANDIDATES, env.MEM_PER_OCPU, adIdx, ocpuIdx)
             res == try_launch(fs = "ok", beh)
             br == MainBranch(res, beh.write)
         IN  /\ attempt' = attempt + 1
             /\ lastCand' = cand
             /\ lastRegion' = clientRegion
             /\ passTrace' = Append(passTrace, cand)
             /\ lastBeh' = beh
             /\ branch' = br
             /\ onlyCapacity' = (onlyCapacity /\ br = "capacity")
             /\ accepted' = IF res.accepted THEN accepted + 1 ELSE accepted
             /\ returned' = (returned \/ res.kind = "return")
             /\ successRecords' = IF br = "success" THEN successRecords + 1 ELSE successRecords
             /\ pc' = AfterBranch(br)
             /\ remoteCalled' = (remoteCalled \/ fs = "ok")
    /\ UNCHANGED << env, fs, cloud, exitCode, failure, region, subnet_id, image_override,
                    clientRegion, ad_order, image_id, adIdx, ocpuIdx, passes, sleeps,
                    slept >>

(* Lines 369, 375, 379: time.sleep returns and the for statements advance *)
Sleep ==
    /\ pc = "sleep"
    /\ LET next == NextPos(ad_order, env.OCPU_CANDIDATES, adIdx, ocpuIdx)
       IN  /\ adIdx' = next.i
           /\ ocpuIdx' = next.j
    /\ sleeps' = sleeps + 1
    /\ slept' = slept + SleepInterval(env, branch)
    /\ lastBeh' = NoBehaviour
    /\ branch' = ""
    /\ pc' = "loop"
    /\ UNCHANGED << env, fs, cloud, exitCode, failure, remoteCalled, region, subnet_id,
                    image_override, clientRegion, ad_order, image_id, attempt, passes,
                    lastCand, lastRegion, passTrace, onlyCapacity, accepted, successRecords,
                    returned >>

(* Line 380: both for statements are exhausted; time.sleep returns and the  *)
(* while statement starts the next pass.                                    *)
PassSleep ==
    /\ pc = "loop"
    /\ ~AtCandidate(ad_order, env.OCPU_CANDIDATES, adIdx, ocpuIdx)
    /\ passes < MaxPasses
    /\ LET first == FirstPos(ad_order, env.OCPU_CANDIDATES)
       IN  /\ adIdx' = first.i
           /\ ocpuIdx' = first.j
    /\ sleeps' = sleeps + 1
    /\ slept' = slept + SleepInterval(env, "")
    /\ passes' = passes + 1
    /\ passTrace' = << >>
    /\ UNCHANGED << env, fs, cloud, pc, exitCode, failure, remoteCalled, region, subnet_id,
                    image_override, clientRegion, ad_order, image_id, attempt, lastCand,
                    lastRegion, lastBeh, branch, onlyCapacity, accepted, successRecords,
                    returned >>

Next == Start \/ Resolve \/ Prepare \/ Attempt \/ Sleep \/ PassSleep

Spec == Init /\ [][Next]_vars

(* The provider calls and time.sleep return: main() is one thread that      *)
(* keeps running until it returns or exits.                                 *)
FairSpec == FairInit /\ [][Next]_vars /\ WF_vars(Next)

(* The runs over the listings compute.list_images can answer (line 90): up  *)
(* to MaxImages images, newest first, each with one of the display names;   *)
(* an image without a display name has the empty name (line 99).            *)
ImageNames ==
    { IMG_2204_AARCH64, IMG_2204_arm, IMG_2404_arm, IMG_2004_aarch64, IMG_2204_amd64,
      MSG_Empty }

ListingOf(names) ==
    [i \in 1..Len(names) |-> [id |-> 20 + i, display_name |-> names[i]]]

ImageListings ==
    { ListingOf(names) : names \in UNION { [1..n -> ImageNames] : n \in 0..MaxImages } }

ImageInit ==
    \E imgs \in ImageListings :
        InitWith(Config(DefaultEnv, [DefaultCloud EXCEPT !.images = imgs], "ok"))

(* main() up to the choice of the image, lines 316-349 *)
ImageNext == Start \/ Resolve \/ Prepare

ImageSpec == ImageInit /\ [][ImageNext]_vars

----------------------------------------------------------------------------
(* Properties *)

(* main() has returned or exited *)
Ended == pc \in {"Succeeded", "Aborted", "exit"}

(* The candidate sequence as the specification defines it: the cross        *)
(* product of the AD list and the OCPU list, AD-major, memory = ocpu *      *)
(* ratio.                                                                   *)
CrossProduct(ads, ocpus, ratio) ==
    [k \in 1..(Len(ads) * Len(ocpus)) |->
        [ad |-> ads[((k - 1) \div Len(ocpus)) + 1],
         ocpu |-> ocpus[((k - 1) % Len(ocpus)) + 1],
         mem |-> ocpus[((k - 1) % Len(ocpus)) + 1] * ratio]]

Candidates == CrossProduct(ad_order, env.OCPU_CANDIDATES, env.MEM_PER_OCPU)

(* C1: at most one success record (SUCCESS.txt) is written in a run; once   *)
(* it is written the loop state is Succeeded, and from then on no further   *)
(* try_launch call is issued and nothing is written again.                  *)
C1_AtMostOneSuccessRecord ==
    /\ [](successRecords <= 1)
    /\ [](successRecords = 1 => pc = "Succeeded")
    /\ [][successRecords >= 1 => (attempt' = attempt /\ successRecords' = successRecords)]_vars

(* C1 witness: a success record written after earlier attempts failed *)
C1_Witness ==
    pc = "Succeeded" /\ successRecords = 1 /\ attempt >= 3 /\ branch = "success"

(* C2: CapacityExhausted never halts the loop. After an attempt that took   *)
(* the capacity branch main() is sleeping, never ended; and for every N,    *)
(* once the first N attempts all ended in CapacityExhausted, attempt N+1 is *)
(* issued (for N = 0: once the loop stands at its first candidate).         *)
C2_CapacityNeverHalts ==
    /\ [](branch = "capacity" => (pc = "sleep" /\ ~Ended))
    /\ \A n \in 1..(MaxAttempts - 1) :
          (onlyCapacity /\ attempt = n) ~> (attempt = n + 1)
    /\ (pc = "loop" /\ attempt = 0 /\ Candidates # << >>) ~> (attempt = 1)

(* C2 witness: every attempt up to the bound was issued after only         *)
(* CapacityExhausted outcomes, across the end of a pass                     *)
C2_Witness ==
    onlyCapacity /\ attempt = MaxAttempts /\ branch = "capacity" /\ passes >= 1

(* C3: NotRetryable halts at once. An attempt that took the authorization  *)
(* / not-found branch leaves main() Aborted with no success record; Aborted *)
(* is reached only that way, and from Aborted no further try_launch call is *)
(* issued: the state never changes again.                                   *)
C3_NotRetryableHalts ==
    /\ [](branch = "auth" => (pc = "Aborted" /\ successRecords = 0))
    /\ [](pc = "Aborted" => (branch = "auth" /\ successRecords = 0 /\ pc # "Succeeded"))
    /\ [][pc = "Aborted" => (attempt' = attempt /\ pc' = "Aborted")]_vars

(* C3 witness: Aborted on the second attempt while candidates were left *)
C3_Witness ==
    /\ pc = "Aborted" /\ attempt = 2 /\ Len(Candidates) >= 3
    /\ lastBeh.err.kind = "ServiceError" /\ lastBeh.err.status = 404

(* C4: the candidates handed to try_launch in one pass are, in order, the   *)
(* cross product AD-major / OCPU-minor with mem = ocpu * ratio: during a    *)
(* pass the calls made so far are its prefix, and a completed pass is the   *)
(* whole sequence.                                                          *)
C4_CandidateSequence ==
    (pc \in {"loop", "sleep", "Succeeded", "Aborted"}) =>
        /\ Len(passTrace) <= Len(Candidates)
        /\ passTrace = SubSeq(Candidates, 1, Len(passTrace))
        /\ (pc = "loop" /\ ~AtCandidate(ad_order, env.OCPU_CANDIDATES, adIdx, ocpuIdx))
              => passTrace = Candidates

(* C4 witness: the example of the specification, ADs [A,B] = [1,2], OCPUs   *)
(* [4,2], ratio 6, after one complete pass                                  *)
C4_Witness ==
    /\ pc = "loop"
    /\ ad_order = <<1, 2>> /\ env.OCPU_CANDIDATES = <<4, 2>> /\ env.MEM_PER_OCPU = 6
    /\ passTrace = << [ad |-> 1, ocpu |-> 4, mem |-> 24], [ad |-> 1, ocpu |-> 2, mem |-> 12],
                      [ad |-> 2, ocpu |-> 4, mem |-> 24], [ad |-> 2, ocpu |-> 2, mem |-> 12] >>

(* C5: the k-th attempt of a run targets candidate number (k-1) mod L of    *)
(* the sequence of length L, which is fixed when the loop starts and is     *)
(* never reordered or shortened afterwards.                                 *)
C5_MonotoneWrap ==
    /\ [](attempt >= 1 =>
            /\ Candidates # << >>
            /\ lastCand = Candidates[((attempt - 1) % Len(Candidates)) + 1])
    /\ [][(pc \in {"loop", "sleep"}) => (ad_order' = ad_order /\ env' = env)]_vars

(* C5 witness: the attempt after a complete pass of two candidates is the   *)
(* first candidate again                                                    *)
C5_Witness ==
    /\ attempt = 3 /\ passes = 1 /\ Len(Candidates) = 2
    /\ lastCand = Candidates[1] /\ Candidates[1] # Candidates[2]


(* The verdicts of the specification for the branches of main() *)
VerdictOf(br) ==
    IF br = "auth" THEN "NotRetryable"
    ELSE IF br = "capacity" THEN "CapacityExhausted"
    ELSE IF br \in {"other", "exception"} THEN "TransientError"
    ELSE IF br = "success" THEN "Success"
    ELSE "none"

(* The messages of the model that, lower-cased, contain 'notauthorized' or  *)
(* 'not found', and those that contain 'capacity', 'outofhostcapacity',     *)
(* 'out of capacity' or 'insufficient', listed by hand.                     *)
AuthKeywordMessages == { MSG_AuthFailed, MSG_NotFoundCap }
CapacityKeywordMessages ==
    { MSG_OutOfHost, MSG_NotFoundCap, MSG_Insufficient, MSG_OutOfCapacity, MSG_CAPACITY }

(* The classification policy as the specification states it *)
ExpectedVerdict(status, message) ==
    IF status = 404 \/ message \in AuthKeywordMessages THEN "NotRetryable"
    ELSE IF message \in CapacityKeywordMessages THEN "CapacityExhausted"
    ELSE "TransientError"

(* C6: every provider failure (ServiceError) gets exactly one of the three  *)
(* verdicts, decided by status and message in the fixed order: NotRetryable *)
(* for 404 or an authorization / not-found keyword, also when a capacity    *)
(* keyword is present; else CapacityExhausted for a capacity keyword; else  *)
(* TransientError.                                                          *)
C6_Classification ==
    lastBeh.err.kind = "ServiceError" =>
        /\ branch \in {"auth", "capacity", "other"}
        /\ VerdictOf(branch) = ExpectedVerdict(lastBeh.err.status, lastBeh.err.message)

(* C6 witness: a message with a not-found and a capacity keyword, status    *)
(* 500, classified NotRetryable                                             *)
C6_Witness ==
    /\ lastBeh.err = [kind |-> "ServiceError", status |-> 500, message |-> MSG_NotFoundCap]
    /\ branch = "auth"

(* C7: a launch timeout (wait_until gives up after 900 s) is a              *)
(* TransientError, never CapacityExhausted, never fatal: main() sleeps,     *)
(* then goes on in the loop at the next position, with no exit and no       *)
(* abort.                                                                   *)
C7_TimeoutIsTransient ==
    /\ [](lastBeh.err.kind = "MaximumWaitTimeExceeded" =>
            /\ VerdictOf(branch) = "TransientError"
            /\ pc = "sleep" /\ exitCode = -1)
    /\ [][lastBeh.err.kind = "MaximumWaitTimeExceeded" =>
            /\ pc' = "loop" /\ exitCode' = -1
            /\ sleeps' = sleeps + 1
            /\ <<adIdx', ocpuIdx'>> # <<adIdx, ocpuIdx>>]_vars

(* C7 witness: the second attempt timed out after its launch was accepted *)
C7_Witness ==
    /\ lastBeh.err.kind = "MaximumWaitTimeExceeded" /\ lastBeh.stage = "wait"
    /\ attempt = 2 /\ accepted >= 1 /\ pc = "sleep"

(* C8: an instance that reaches RUNNING without a VNIC attachment is never  *)
(* a Success: no success record exists, the attempt is a TransientError and *)
(* main() sleeps, then goes on in the loop at the next position.            *)
C8_NoAttachmentIsTransient ==
    /\ [](lastBeh.err.kind = "NoVnicAttachment" =>
            /\ VerdictOf(branch) = "TransientError"
            /\ successRecords = 0
            /\ pc = "sleep")
    /\ [][lastBeh.err.kind = "NoVnicAttachment" =>
            /\ pc' = "loop" /\ successRecords' = 0
            /\ sleeps' = sleeps + 1
            /\ <<adIdx', ocpuIdx'>> # <<adIdx, ocpuIdx>>]_vars

(* C8 witness: an accepted launch, RUNNING, no attachment *)
C8_Witness ==
    /\ lastBeh.err.kind = "NoVnicAttachment" /\ lastBeh.stage = "attach"
    /\ accepted >= 1 /\ pc = "sleep" /\ branch = "other"

(* C9: a key file that cannot be read ends the run before any call to the   *)
(* provider; it is never handled per attempt, so main() never issues an     *)
(* attempt and never sleeps with such a key.                                *)
C9_UnreadableKeyIsFatal ==
    fs # "ok" => (~remoteCalled /\ attempt = 0 /\ sleeps = 0)

(* The configured subnet is absent (404) in the region of the configuration *)
(* file, auto-switch is enabled and a subscribed other region has it.       *)
SwitchCase ==
    /\ env.SUBNET_OCID_ENV # 0
    /\ env.AUTO_SWITCH_REGION
    /\ cloud.subnetAt[BaseRegion] = "404"
    /\ \E i \in 1..Len(cloud.subs) :
          cloud.subs[i] # BaseRegion /\ cloud.subnetAt[cloud.subs[i]] = "ok"

(* The region that has the configured subnet *)
SubnetRegion == CHOOSE r \in Regions : cloud.subnetAt[r] = "ok"

(* C10: in the switch case, once the resolver has returned, it has returned *)
(* the other region and the configured subnet's id, and every attempt of    *)
(* the run is issued through clients bound to that region, none through     *)
(* clients of the starting region.                                          *)
C10_RegionAutoSwitch ==
    SwitchCase =>
        /\ region # "" =>
              /\ region = SubnetRegion /\ region # BaseRegion
              /\ subnet_id = env.SUBNET_OCID_ENV
        /\ attempt >= 1 => (lastRegion = SubnetRegion /\ lastRegion # BaseRegion)
        /\ pc \in {"loop", "sleep"} => clientRegion = SubnetRegion

(* C10 witness: two attempts issued in the switched region r2, found after  *)
(* r1 answered 404                                                          *)
C10_Witness ==
    /\ SwitchCase /\ cloud.subs = <<"r0", "r1", "r2">>
    /\ region = "r2" /\ subnet_id = 7 /\ attempt = 2 /\ lastRegion = "r2"

----------------------------------------------------------------------------
(* The resolution of the subnet and of the image *)

(* main() has left the resolution behind it: the loop is prepared, running  *)
(* or over.                                                                 *)
PastResolution == pc \in {"prepare", "loop", "sleep", "Succeeded", "Aborted"}

(* C11: the resolution never ends without a subnet: the loop is never       *)
(* entered, and no attempt is ever issued, with an empty subnet id; a       *)
(* resolution that found none has failed instead.                           *)
C11_NeverWithoutSubnet ==
    /\ PastResolution => subnet_id # 0
    /\ attempt >= 1 => subnet_id # 0

(* C12: auto-discovery applies only when no subnet id is configured: a      *)
(* configured id that was not found is never replaced by another subnet, so *)
(* a subnet the resolution hands to main() is the configured one.           *)
C12_ConfiguredSubnetNotReplaced ==
    (env.SUBNET_OCID_ENV # 0 /\ PastResolution /\ subnet_id # 0)
        => subnet_id = env.SUBNET_OCID_ENV

(* The display names of the model that name an ARM image of the primary     *)
(* version 22.04, and those that name one of the fallback version 24.04     *)
PrimaryNames == { IMG_2204_AARCH64, IMG_2204_arm }
FallbackNames == { IMG_2404_arm }

(* The id of the first image of the listing whose name is one of S, 0 if    *)
(* there is none                                                            *)
FirstNamed(imgs, S) ==
    LET hits == { i \in 1..Len(imgs) : imgs[i].display_name \in S }
    IN  IF hits = {} THEN 0
        ELSE imgs[CHOOSE i \in hits : \A j \in hits : i <= j].id

(* main() has chosen the image, or found none (lines 346-349) *)
ImageChosen ==
    \/ pc \in {"loop", "sleep", "Succeeded", "Aborted"}
    \/ pc = "exit" /\ failure = "no image"

(* C13: without an override, the image is the first of the listing (newest  *)
(* first) that is an ARM image of 22.04, whatever newer images of 24.04     *)
(* the listing has; only when there is none, the first ARM image of 24.04;  *)
(* and none when the listing has neither.                                   *)
C13_PrimaryVersionFirst ==
    (ImageChosen /\ image_override = 0) =>
        image_id = IF FirstNamed(cloud.images, PrimaryNames) # 0
                   THEN FirstNamed(cloud.images, PrimaryNames)
                   ELSE FirstNamed(cloud.images, FallbackNames)

(* A newer 24.04 image stands before the 22.04 image, and the 22.04 image   *)
(* is chosen                                                                *)
C13_Witness ==
    /\ pc = "loop"
    /\ cloud.images = ListingOf(<<IMG_2404_arm, IMG_2204_AARCH64, IMG_2004_aarch64>>)
    /\ image_id = 22

(* The resolution failures of C14, stated on the configuration and on the   *)
(* answers of the provider                                                  *)
CompartmentNotFound == cloud.user = "ok" /\ cloud.compartment = "404"

SubnetInNoRegion ==
    /\ env.SUBNET_OCID_ENV # 0 /\ env.AUTO_SWITCH_REGION
    /\ \A r \in Regions : cloud.subnetAt[r] = "404"

NoSubnetVisible ==
    /\ env.SUBNET_OCID_ENV = 0 /\ env.AUTO_FIND_SUBNET
    /\ \A i \in 1..Len(cloud.subnets) : cloud.subnets[i].state # "AVAILABLE"

ImageOverrideNotFound ==
    /\ env.IMAGE_OCID_OVERRIDE # 0
    /\ \A r \in Regions : cloud.imageAt[r] = "404"

NoMatchingImage ==
    /\ env.IMAGE_OCID_OVERRIDE = 0
    /\ FirstNamed(cloud.images, PrimaryNames \cup FallbackNames) = 0

(* C14: every resolution failure is fatal before the retry loop: the run    *)
(* exits with zero attempts and no success record, and a run in which one   *)
(* of the failures is due never reaches the loop.                           *)
C14_ResolutionFailureIsFatal ==
    /\ failure # "" =>
          pc = "exit" /\ exitCode \in {0, 1} /\ attempt = 0 /\ successRecords = 0
    /\ ( \/ CompartmentNotFound \/ SubnetInNoRegion \/ NoSubnetVisible
         \/ ImageOverrideNotFound \/ NoMatchingImage ) =>
          /\ pc \in {"start", "resolve", "prepare", "exit"}
          /\ attempt = 0 /\ successRecords = 0
          /\ pc = "exit" => failure # ""

(* The configured image is nowhere, the subnet is, and the run has exited   *)
C14_Witness ==
    /\ ImageOverrideNotFound /\ ~SubnetInNoRegion
    /\ pc = "exit" /\ failure = "image override not found" /\ attempt = 0

----------------------------------------------------------------------------
(* The backoff *)

(* C15: the backoff is sequential and the same after CAPACITY and after any *)
(* other non-terminal outcome: when an attempt starts, every earlier        *)
(* attempt has been followed by exactly one completed sleep and every wrap  *)
(* of the index by exactly one more; an attempt with a non-terminal outcome *)
(* is followed by a sleep, a terminal one by none; and every sleep lasts    *)
(* the configured interval.                                                 *)
C15_SequentialFixedBackoff ==
    /\ pc = "loop" => sleeps = attempt + passes
    /\ pc \in {"sleep", "Succeeded", "Aborted"} => sleeps = (attempt - 1) + passes
    /\ branch \in {"capacity", "other", "exception"} <=> pc = "sleep"
    /\ branch \in {"success", "auth"} <=> pc \in {"Succeeded", "Aborted"}
    /\ slept = sleeps * env.SLEEP_SECONDS

(* After a wrap and a CAPACITY outcome, an attempt has ended in another     *)
(* error and its sleep is due                                               *)
C15_Witness ==
    /\ pc = "sleep" /\ branch = "other" /\ lastBeh.stage = "wait"
    /\ passes >= 1 /\ attempt >= 3 /\ ~onlyCapacity
    /\ sleeps = (attempt - 1) + passes
    /\ slept = sleeps * 120

----------------------------------------------------------------------------
(* The image override after a switch of region *)

(* The resolution switches region: the switch case, with the user and the   *)
(* compartment readable and the search reaching the region of the subnet    *)
Switches ==
    /\ SwitchCase
    /\ cloud.user = "ok" /\ cloud.compartment = "ok"
    /\ SearchRegions(cloud, BaseRegion, 1).kind = "found"

(* C16: when the resolution switches region, the image override is          *)
(* validated in the switched region: an override the resolution accepts     *)
(* exists there, and one that exists there is accepted, whether or not the  *)
(* starting region has it.                                                  *)
C16_OverrideValidatedInSwitchedRegion ==
    (Switches /\ env.IMAGE_OCID_OVERRIDE # 0 /\ pc \notin {"start", "resolve"}) =>
        LET target == SearchRegions(cloud, BaseRegion, 1).region
        IN  /\ PastResolution => cloud.imageAt[region] = "ok"
            /\ cloud.imageAt[target] = "ok" => PastResolution

----------------------------------------------------------------------------
(* The end of the run *)

(* C17: a Success outcome ends the run also when the success record cannot  *)
(* be written: once try_launch has returned an instance, no further attempt *)
(* is issued.                                                               *)
C17_SuccessEndsRunOnWriteError == [][returned => attempt' = attempt]_vars

(* C18: at most one instance-creation request is accepted by the provider   *)
(* per run: once launch_instance has accepted a request, the run submits no *)
(* other, whatever happens afterwards in that attempt.                      *)
C18_AtMostOneAccepted == accepted <= 1

----------------------------------------------------------------------------
(* Progress of the loop *)

(* C19: while the attempts end in CapacityExhausted or TransientError, no   *)
(* candidate is starved or skipped in any pass: for every n, a run that     *)
(* stands in the loop after n attempts issues attempt n + 1, in pass        *)
(* n div L and for candidate number n mod L of the sequence of length L.    *)
(* Each candidate is so attempted once in every pass, and the passes never  *)
(* end.                                                                     *)
C19_NoCandidateStarved ==
    \A n \in 0..(MaxAttempts - 1) :
        (pc \in {"loop", "sleep"} /\ attempt = n /\ Candidates # << >>)
            ~> ( /\ attempt = n + 1
                 /\ lastCand = Candidates[(n % Len(Candidates)) + 1]
                 /\ passes = n \div Len(Candidates) )

(* The last candidate of a sequence of two is attempted again in the second *)
(* pass, after errors of both kinds                                         *)
C19_Witness ==
    /\ pc = "sleep" /\ attempt = 4 /\ passes = 1 /\ ~onlyCapacity
    /\ Len(Candidates) = 2 /\ lastCand = Candidates[2] /\ Candidates[1] # Candidates[2]

(* C20: the scheduler never loops without attempting: for every accepted    *)
(* configuration, once the resolution has succeeded and the loop is         *)
(* entered, the candidate sequence is not empty, and no pass is completed   *)
(* without an attempt.                                                      *)
C20_NeverLoopsWithoutAttempting ==
    pc \in {"loop", "sleep"} =>
        /\ Candidates # << >>
        /\ passes >= 1 => attempt >= 1
====
